---- MODULE Spec2Model ----
(***************************************************************************)
(* A model of the BMP codec and transformation pipeline of                 *)
(* ab-dauletkhan/bitmap: ParseBMP, validateHeaders, SerializeBMP and the   *)
(* transforms MirrorImage, Rotate, Crop and Filter of package core.        *)
(*                                                                         *)
(* Conventions.  A Go byte slice is a sequence of 0..255; Go index i is    *)
(* TLA+ index i+1 (see At).  A grid [][]Pixel is a sequence of rows, each  *)
(* a sequence of records [Blue, Green, Red]; Go's Data[y][x] is            *)
(* Data[y+1][x+1].  A run-time panic of the Go program (index out of       *)
(* range, negative make length) is the outcome "panic": the operation      *)
(* returns nothing and the process stops.                                  *)
(*                                                                         *)
(* Integers.  The int32 header fields (Width, Height, resolutions) hold    *)
(* their exact signed value.  The uint32 fields hold their exact unsigned  *)
(* value, which the enumerated buffers keep below 2^31.  The uint32        *)
(* product of validateHeaders is computed modulo 2^32 on the four bytes of *)
(* its operands (Mul32), and sums that could leave the checker's integer   *)
(* range are rewritten into equivalent comparisons.                        *)
(*                                                                         *)
(* Two specifications.  Spec is the pipeline: ParseBMP, the transforms of  *)
(* ApplyTransformations, SerializeBMP.  BlurSpec is one call of the        *)
(* parallel applyBlur of package transformations, its goroutines           *)
(* interleaved row by row and column by column.                            *)
(***************************************************************************)
EXTENDS Integers, Sequences, FiniteSets, TLC

VARIABLES
    b,      \* the byte buffer handed to ParseBMP
    pc,     \* "start", "parsed", "failed", "aborted", "crashed", "saved"
    err,    \* the error of the last operation: "nil", an Err... name, or "panic"
    image,  \* the *BMPImage the pipeline owns, or Nil
    out,    \* the bytes SerializeBMP returned, <<>> before
    steps,  \* number of transforms applied so far
    par     \* the goroutines of one call of the parallel applyBlur, Nil outside one

vars == <<b, pc, err, image, out, steps, par>>

\* ------------------------------------------------------------------ bounds

\* widths of the enumerated input images are 1..MaxWidth
MaxWidth == 4
\* absolute heights of the enumerated input images are 1..MaxHeight
MaxHeight == 2
\* at most MaxSteps transforms are applied to one image
MaxSteps == 2

\* ------------------------------------------------------------------ bytes

Nil == [nil |-> TRUE]

\* utils.Abs
Abs(x) == IF x < 0 THEN -x ELSE x

\* min(a, b) of package transformations
min(a, c) == IF a < c THEN a ELSE c

\* b[i] of the Go slice b
At(s, i) == s[i + 1]

\* binary.LittleEndian.Uint16(b[off:off+2])
Uint16LE(s, off) == At(s, off) + 256 * At(s, off + 1)

\* binary.LittleEndian.Uint32(b[off:off+4]); exact below 2^31
Uint32LE(s, off) ==
    At(s, off) + 256 * At(s, off + 1) + 65536 * At(s, off + 2)
        + 16777216 * At(s, off + 3)

\* int32(binary.LittleEndian.Uint32(b[off:off+4])): the two's complement value
Int32LE(s, off) ==
    At(s, off) + 256 * At(s, off + 1) + 65536 * At(s, off + 2)
        + 16777216 * (IF At(s, off + 3) >= 128 THEN At(s, off + 3) - 256
                                               ELSE At(s, off + 3))

\* binary.LittleEndian.PutUint16: the two bytes of v
PutUint16(v) == <<v % 256, (v \div 256) % 256>>

\* binary.LittleEndian.PutUint32(uint32(v)): the four bytes of v's two's
\* complement (\div rounds down and % is non-negative)
PutUint32(v) ==
    <<v % 256, (v \div 256) % 256, (v \div 65536) % 256, (v \div 16777216) % 256>>

\* (n + 3) & ^3
RoundUp4(n) == ((n + 3) \div 4) * 4

\* uint32 multiplication: the four little-endian bytes of (a * c) mod 2^32
Mul32(a, c) ==
    LET x == PutUint32(a)
        y == PutUint32(c)
        c0 == x[1] * y[1]
        c1 == x[1] * y[2] + x[2] * y[1] + c0 \div 256
        c2 == x[1] * y[3] + x[2] * y[2] + x[3] * y[1] + c1 \div 256
        c3 == x[1] * y[4] + x[2] * y[3] + x[3] * y[2] + x[4] * y[1] + c2 \div 256
    IN  <<c0 % 256, c1 % 256, c2 % 256, c3 % 256>>

\* (x + 3) & ^uint32(3) on the four little-endian bytes x of a uint32
RoundUp4Bytes(x) ==
    LET s0 == x[1] + 3
        s1 == x[2] + s0 \div 256
        s2 == x[3] + s1 \div 256
        s3 == x[4] + s2 \div 256
    IN  <<(s0 % 256) - (s0 % 4), s1 % 256, s2 % 256, s3 % 256>>

\* ------------------------------------------------------------------ codec

\* what ParseBMP returns: (nil, err), (bmp, nil), or a panic
Result(e, img) == [err |-> e, img |-> img]

\* the header fields ParseBMP reads from bytes 0..53
ReadHeaders(s) ==
    [Header |->
        [Signature  |-> <<At(s, 0), At(s, 1)>>,
         FileSize   |-> Uint32LE(s, 2),
         Reserved   |-> Uint32LE(s, 6),
         DataOffset |-> Uint32LE(s, 10)],
     InfoHeader |->
        [Size            |-> Uint32LE(s, 14),
         Width           |-> Int32LE(s, 18),
         Height          |-> Int32LE(s, 22),
         Planes          |-> Uint16LE(s, 26),
         BitsPerPixel    |-> Uint16LE(s, 28),
         Compression     |-> Uint32LE(s, 30),
         ImageSize       |-> Uint32LE(s, 34),
         XPixelsPerMeter |-> Int32LE(s, 38),
         YPixelsPerMeter |-> Int32LE(s, 42),
         ColorsUsed      |-> Uint32LE(s, 46),
         ColorsImportant |-> Uint32LE(s, 50)],
     Data |-> <<>>]

\* validateHeaders(bmp, fileSize): the first failing check, or "nil".
\* widthInBytes is floor(|Width| * BitsPerPixel / 8), computed here without
\* the intermediate product; expectedImageSize is a uint32 product, kept as
\* its four bytes.
validateHeaders(bmp, fileSize) ==
    LET ih == bmp.InfoHeader
        widthInBytes == (Abs(ih.Width) \div 8) * ih.BitsPerPixel
                            + ((Abs(ih.Width) % 8) * ih.BitsPerPixel) \div 8
        paddedWidth == RoundUp4(widthInBytes)
        expectedImageSize == RoundUp4Bytes(Mul32(paddedWidth, Abs(ih.Height)))
    IN  IF PutUint32(bmp.Header.FileSize) # PutUint32(fileSize) THEN "ErrCorruptFile"
        ELSE IF ih.Width <= 0 \/ ih.Height = 0 THEN "ErrNonPositiveDimensions"
        ELSE IF ih.Planes # 1 THEN "ErrUnsupportedFormat"
        ELSE IF ih.BitsPerPixel # 24 THEN "ErrUnsupportedFormat"
        ELSE IF ih.Compression # 0 THEN "ErrUnsupportedCompression"
        ELSE IF PutUint32(ih.ImageSize) # expectedImageSize THEN "ErrInvalidImageData"
        ELSE "nil"

\* the pixel ParseBMP builds from b[offset], b[offset+1], b[offset+2]
PixelAt(s, offset) ==
    [Blue |-> At(s, offset), Green |-> At(s, offset + 1),
     Red |-> At(s, offset + 2)]

\* the offset of pixel (y, x) in ParseBMP's loop
pixelOffset(bmp, y, x) ==
    LET bytesPerPixel == bmp.InfoHeader.BitsPerPixel \div 8
        rowSize == bmp.InfoHeader.Width * bytesPerPixel
    IN  bmp.Header.DataOffset + y * rowSize + x * bytesPerPixel

\* the pixel loop of ParseBMP reads a byte outside the n-byte buffer.  It
\* reads increasing offsets, so it does exactly when the last byte it wants,
\* that of pixel (h-1, w-1), is outside; an image of more than n rows or
\* columns wants more than n bytes.
ReadsOutside(bmp, n) ==
    LET h == Abs(bmp.InfoHeader.Height)
        w == bmp.InfoHeader.Width
    IN  h > n \/ w > n \/ pixelOffset(bmp, h - 1, w - 1) + 2 >= n

\* ParseBMP(b)
ParseBMP(s) ==
    IF Len(s) < 54 THEN Result("ErrInvalidBMP", Nil)
    ELSE IF <<At(s, 0), At(s, 1)>> # <<66, 77>> THEN Result("ErrInvalidFileType", Nil)
    ELSE IF Uint32LE(s, 14) < 40 THEN Result("ErrInvalidHeaderSize", Nil)
    ELSE
        LET bmp == ReadHeaders(s)
            e == validateHeaders(bmp, Len(s))
            h == Abs(bmp.InfoHeader.Height)
            w == bmp.InfoHeader.Width
        IN  IF e # "nil" THEN Result(e, Nil)
            ELSE IF ReadsOutside(bmp, Len(s)) THEN Result("panic", Nil)
            ELSE Result("nil",
                    [bmp EXCEPT !.Data =
                        [y \in 1..h |-> [x \in 1..w |->
                            PixelAt(s, pixelOffset(bmp, y - 1, x - 1))]]])

\* the 54 header bytes SerializeBMP writes
HeaderBytes(img) ==
    LET fh == img.Header
        ih == img.InfoHeader
    IN  fh.Signature \o PutUint32(fh.FileSize) \o PutUint32(fh.Reserved)
        \o PutUint32(fh.DataOffset) \o PutUint32(ih.Size) \o PutUint32(ih.Width)
        \o PutUint32(ih.Height) \o PutUint16(ih.Planes) \o PutUint16(ih.BitsPerPixel)
        \o PutUint32(ih.Compression) \o PutUint32(ih.ImageSize)
        \o PutUint32(ih.XPixelsPerMeter) \o PutUint32(ih.YPixelsPerMeter)
        \o PutUint32(ih.ColorsUsed) \o PutUint32(ih.ColorsImportant)

\* the three bytes SerializeBMP writes for one pixel
PixelBytes(p) == <<p.Blue, p.Green, p.Red>>

\* SerializeBMP(image): [err, data].  data is allocated zeroed at totalSize; the
\* header writes data[0:54] panic when totalSize < 54; then the pixels are
\* written one after another from headerSize on, offset growing by
\* bytesPerPixel per pixel and by nothing at the end of a row.
SerializeBMP(img) ==
    LET headerSize == img.Header.DataOffset
        width == img.InfoHeader.Width
        height == Abs(img.InfoHeader.Height)
        bytesPerPixel == img.InfoHeader.BitsPerPixel \div 8
        rowSize == RoundUp4(width * bytesPerPixel)
        dataSize == rowSize * height
        totalSize == headerSize + dataSize
        hdr == HeaderBytes(img)
        npix == width * height
    IN  IF totalSize < 54 THEN [err |-> "panic", data |-> <<>>]
        ELSE [err |-> "nil",
              data |-> [i \in 1..totalSize |->
                LET k == (i - 1) - headerSize
                IN  IF k >= 0 /\ k < npix * bytesPerPixel
                    THEN PixelBytes(img.Data[(k \div bytesPerPixel) \div width + 1]
                                            [((k \div bytesPerPixel) % width) + 1])
                                   [(k % bytesPerPixel) + 1]
                    ELSE IF i <= 54 THEN hdr[i] ELSE 0]]

\* ------------------------------------------------------------------ transforms

\* what a transform leaves: the image (unchanged on an error or a panic) and
\* "nil", an error message, or "panic"
Outcome(e, img) == [err |-> e, img |-> img]

\* len(image.Data) and len(image.Data[0])
Rows(img) == Len(img.Data)
Cols(img) == Len(img.Data[1])

\* Rotate that builds the new grid and leaves the header's dimensions alone
RotateKeepDims(img, direction) ==
    LET h == Rows(img)
        w == Cols(img)
    IN  [img EXCEPT
            !.Data = [i \in 1..w |-> [j \in 1..h |->
                IF direction = -1 THEN img.Data[h - j + 1][i]
                                  ELSE img.Data[j][w - i + 1]]]]

\* Rotate(image, direction): rotatedData[i][j] = Data[h-1-j][i] (left) or
\* Data[j][w-1-i] (right); Height = w, Width = h
Rotate(img, direction) ==
    LET h == Rows(img)
        w == Cols(img)
    IN  [img EXCEPT
            !.Data = [i \in 1..w |-> [j \in 1..h |->
                IF direction = -1 THEN img.Data[h - j + 1][i]
                                  ELSE img.Data[j][w - i + 1]]],
            !.InfoHeader.Height = w,
            !.InfoHeader.Width = h]

\* a vertical mirror that negates the stored height and leaves the rows in
\* place; the horizontal mirror as in MirrorImage
MirrorBySignFlip(img, direction) ==
    LET h == Rows(img)
        w == Cols(img)
    IN  IF direction = "horizontal" THEN
            [img EXCEPT !.Data = [y \in 1..h |-> [x \in 1..w |-> img.Data[y][w - x + 1]]]]
        ELSE IF direction = "vertical" THEN
            [img EXCEPT !.InfoHeader.Height = -img.InfoHeader.Height]
        ELSE img

\* a mirror that moves every pixel one place on, cyclically, along its row
\* (horizontal) or its column (vertical)
MirrorByShift(img, direction) ==
    LET h == Rows(img)
        w == Cols(img)
    IN  IF direction = "horizontal" THEN
            [img EXCEPT !.Data = [y \in 1..h |-> [x \in 1..w |-> img.Data[y][(x % w) + 1]]]]
        ELSE IF direction = "vertical" THEN
            [img EXCEPT !.Data = [y \in 1..h |-> [x \in 1..w |-> img.Data[(y % h) + 1][x]]]]
        ELSE img

\* MirrorImage(image, direction): the loops swap (y, x) with (y, w-x-1) for
\* x < w/2, or (y, x) with (h-y-1, x) for y < h/2; 0-based x and y below
MirrorImage(img, direction) ==
    LET h == Rows(img)
        w == Cols(img)
        swappedX(x) == x < w \div 2 \/ w - x - 1 < w \div 2
        swappedY(y) == y < h \div 2 \/ h - y - 1 < h \div 2
    IN  IF direction = "horizontal" THEN
            [img EXCEPT !.Data = [y \in 1..h |-> [x \in 1..w |->
                IF swappedX(x - 1) THEN img.Data[y][w - x + 1] ELSE img.Data[y][x]]]]
        ELSE IF direction = "vertical" THEN
            [img EXCEPT !.Data = [y \in 1..h |-> [x \in 1..w |->
                IF swappedY(y - 1) THEN img.Data[h - y + 1][x] ELSE img.Data[y][x]]]]
        ELSE img

\* CropInfo
CropInfo(ox, oy, cw, ch) == [OffsetX |-> ox, OffsetY |-> oy, Width |-> cw, Height |-> ch]

\* Crop without the test of the crop area against the image boundaries: an
\* area that exceeds them is cut at the far edges
CropClipped(img, opts) ==
    LET originalWidth == img.InfoHeader.Width
        originalHeight == img.InfoHeader.Height
        isTopDown == originalHeight < 0
        absHeight == Abs(originalHeight)
        wanted == [w |-> IF opts.Width = 0 THEN originalWidth - opts.OffsetX ELSE opts.Width,
                   h |-> IF opts.Height = 0 THEN absHeight - opts.OffsetY ELSE opts.Height]
        Width == IF opts.OffsetX + wanted.w > originalWidth
                 THEN originalWidth - opts.OffsetX ELSE wanted.w
        Height == IF opts.OffsetY + wanted.h > absHeight
                  THEN absHeight - opts.OffsetY ELSE wanted.h
        srcRow(i) == IF ~isTopDown THEN opts.OffsetY + i
                     ELSE absHeight - 1 - (opts.OffsetY + i)
        imageSize == RoundUp4(Width * (img.InfoHeader.BitsPerPixel \div 8)) * Height
    IN  IF opts.OffsetX >= originalWidth \/ opts.OffsetY >= absHeight
            THEN Outcome("offset values exceed image dimensions", img)
        ELSE IF opts.OffsetX < 0 \/ opts.OffsetY < 0 THEN Outcome("panic", img)
        ELSE Outcome("nil",
                [img EXCEPT
                    !.Data = [i \in 1..Height |-> [j \in 1..Width |->
                        img.Data[srcRow(i - 1) + 1][opts.OffsetX + j]]],
                    !.Header.FileSize = img.Header.DataOffset + imageSize,
                    !.InfoHeader.Width = Width,
                    !.InfoHeader.Height = IF isTopDown THEN -Height ELSE Height,
                    !.InfoHeader.ImageSize = imageSize])

\* Crop(image, opts)
Crop(img, opts) ==
    LET originalWidth == img.InfoHeader.Width
        originalHeight == img.InfoHeader.Height
        isTopDown == originalHeight < 0
        absHeight == Abs(originalHeight)
        Width == IF opts.Width = 0 THEN originalWidth - opts.OffsetX ELSE opts.Width
        Height == IF opts.Height = 0 THEN absHeight - opts.OffsetY ELSE opts.Height
        \* 0-based source row of cropped row i
        srcRow(i) == IF ~isTopDown THEN opts.OffsetY + i
                     ELSE absHeight - 1 - (opts.OffsetY + i)
        \* make with a negative length, or an index outside the grid
        panics ==
            \/ Height < 0
            \/ Width < 0
            \/ \E i \in 0..(Height - 1), j \in 0..(Width - 1) :
                \/ srcRow(i) < 0 \/ srcRow(i) >= Len(img.Data)
                \/ opts.OffsetX + j < 0
                \/ opts.OffsetX + j >= Len(img.Data[srcRow(i) + 1])
        bytesPerPixel == img.InfoHeader.BitsPerPixel \div 8
        rowSize == RoundUp4(Width * bytesPerPixel)
        imageSize == rowSize * Height
    IN  IF opts.OffsetX >= originalWidth \/ opts.OffsetY >= absHeight
            THEN Outcome("offset values exceed image dimensions", img)
        ELSE IF opts.OffsetX + Width > originalWidth \/ opts.OffsetY + Height > absHeight
            THEN Outcome("crop area exceeds image boundaries", img)
        ELSE IF panics THEN Outcome("panic", img)
        ELSE Outcome("nil",
                [img EXCEPT
                    !.Data = [i \in 1..Height |-> [j \in 1..Width |->
                        img.Data[srcRow(i - 1) + 1][opts.OffsetX + j]]],
                    !.Header.FileSize = img.Header.DataOffset + imageSize,
                    !.InfoHeader.Width = Width,
                    !.InfoHeader.Height = IF isTopDown THEN -Height ELSE Height,
                    !.InfoHeader.ImageSize = imageSize])

\* ------------------------------------------------------------------ filters

\* the colour constants of Filter
blue == 0
green == 1
red == 2
grayscale == 3
negative == 4

\* the (R, G, B), coded 65536*R + 256*G + B, whose luma 0.2126*R + 0.7152*G +
\* 0.0722*B is an integer in exact arithmetic while the float64 sum of the
\* three rounded products (evaluated left to right, unfused) falls just below it
GrayBelow ==
    {7320, 34840, 93753, 94193, 101073, 145786, 180626, 187506, 194386,
     225339, 232219, 232659, 253299, 291132, 291572, 298012, 298452, 325972,
     328965, 378005, 384885, 391765, 408958, 422718, 429598, 430038, 450678,
     460551, 481631, 523351, 540544, 568064, 575384, 582264, 589144, 613217,
     620097, 620537, 626977, 627417, 633857, 648057, 657930, 693210, 720730,
     737923, 758563, 765443, 810596, 817476, 817916, 824356, 824796, 831236,
     845436, 855309, 876389, 890589, 897029, 904349, 921102, 935302, 955942,
     963262, 1001095, 1014855, 1022175, 1029055, 1042815, 1073768, 1094408,
     1101728, 1125801, 1146441, 1153321, 1226434, 1240194, 1271147, 1291787,
     1299107, 1315860, 1336940, 1343820, 1350700, 1351140, 1388973, 1416493,
     1423813, 1437573, 1489166, 1496486, 1520559, 1534319, 1541199, 1548079,
     1548519, 1606992, 1613872, 1621192, 1634952, 1659025, 1686545, 1693865,
     1710618, 1717938, 1752778, 1790611, 1804371, 1811251, 1818131, 1818571,
     1832331, 1842204, 1849524, 1877044, 1883924, 1891244, 1950157, 1987990,
     1994870, 2001750, 2015510, 2022830, 2029710, 2067543, 2074423, 2081303,
     2088623, 2095503, 2147536, 2178489, 2192249, 2199129, 2243842, 2264922,
     2272242, 2278682, 2286002, 2292882, 2344915, 2375428, 2382748, 2389628,
     2396508, 2441221, 2469621, 2476061, 2483381, 2490261, 2528094, 2542294,
     2580127, 2587007, 2593887, 2631720, 2638600, 2667000, 2673440, 2673880,
     2680320, 2680760, 2704393, 2725473, 2739233, 2777506, 2784386, 2791266,
     2798146, 2829099, 2863939, 2864379, 2870819, 2871259, 2877699, 2878139,
     2901772, 2915972, 2922852, 2936612, 2943932, 2974885, 2988645, 3009285,
     3061318, 3061758, 3068198, 3068638, 3075078, 3075518, 3106471, 3113351,
     3133991, 3141311, 3158504, 3164944, 3206664, 3223857, 3272457, 3303850,
     3310730, 3331370, 3338690, 3355443, 3362323, 3376523, 3404043, 3421236,
     3508109, 3528749, 3536069, 3560142, 3573902, 3587662, 3601422, 3646575,
     3684408, 3705488, 3726128, 3733448, 3757521, 3764401, 3771281, 3785041,
     3792361, 3798801, 3809114, 3837074, 3843954, 3865034, 3881787, 3923507,
     3930387, 3930827, 3961780, 3982420, 3989740, 3996180, 4006493, 4034453,
     4041333, 4062413, 4086046, 4107126, 4120886, 4127766, 4128206, 4144959,
     4152279, 4159159, 4179799, 4187119, 4193559, 4217632, 4224952, 4238712,
     4259792, 4290305, 4304505, 4318265, 4325145, 4349658, 4356538, 4377178,
     4384498, 4436091, 4480804, 4487684, 4501884, 4540157, 4547037, 4553917,
     4574557, 4581877, 4678183, 4685063, 4685503, 4750856, 4771936, 4778816,
     4779256, 4861802, 4875562, 4876002, 4882442, 4882882, 4948235, 4955555,
     4969315, 4976195, 4976635, 5072941, 5073381, 5079821, 5080261, 5124974,
     5152934, 5166694, 5173574, 5174014, 5211407, 5263440, 5270760, 5277200,
     5322353, 5350313, 5357193, 5364073, 5370953, 5408786, 5460819, 5468139,
     5474579, 5547692, 5554572, 5561452, 5568332, 5599285, 5606165, 5606605,
     5627245, 5658198, 5665518, 5699918, 5751951, 5758831, 5796664, 5803544,
     5803984, 5824624, 5855577, 5897297, 5942450, 5963090, 5994043, 6001363,
     6022003, 6031876, 6059836, 6094676, 6132509, 6191422, 6198742, 6219382,
     6250335, 6278295, 6329888, 6337208, 6375041, 6388801, 6403001, 6416761,
     6447714, 6468354, 6475674, 6520387, 6527267, 6548347, 6600380, 6614140,
     6645093, 6659293, 6665733, 6673053, 6710886, 6724646, 6790439, 6797759,
     6811519, 6842472, 6863112, 6870432, 6908265, 6922025, 6980938, 7008898,
     7032971, 7039851, 7060491, 7067811, 7126724, 7164557, 7178317, 7185197,
     7192517, 7257870, 7265190, 7324103, 7361936, 7368816, 7389456, 7396776,
     7403656, 7420849, 7441489, 7455249, 7462569, 7469449, 7479762, 7521482,
     7566195, 7610908, 7618228, 7638868, 7646188, 7652628, 7659948, 7666828,
     7718861, 7756694, 7763574, 7836247, 7843567, 7850007, 7857327, 7864207,
     7902040, 7916240, 7946753, 7954073, 8005666, 8012986, 8033626, 8040946,
     8047386, 8047826, 8054706, 8113179, 8113619, 8144132, 8151452, 8172092,
     8210365, 8231005, 8238325, 8289918, 8310558, 8310998, 8317878, 8435264,
     8442144, 8442584, 8449464, 8480417, 8507937, 8515257, 8538890, 8580610,
     8625763, 8633083, 8646403, 8705316, 8712636, 8729389, 8736269, 8777989,
     8896255, 8902695, 8910015, 8933648, 8961608, 8975368, 8985681, 9020521,
     9100074, 9107394, 9131027, 9138347, 9158987, 9166307, 9172747, 9217900,
     9238980, 9297453, 9304333, 9304773, 9335726, 9356366, 9363686, 9370126,
     9380439, 9415279, 9436359, 9481072, 9501712, 9518905, 9526225, 9533105,
     9553745, 9561065, 9567505, 9577818, 9591578, 9598898, 9612658, 9633738,
     9692211, 9716284, 9723604, 9751124, 9758444, 9810037, 9847870, 9854750,
     9875830, 9914103, 9948503, 9955823, 10007416, 10045249, 10052129,
     10059009, 10080089, 10086969, 10087409, 10104162, 10111482, 10124802,
     10145882, 10152762, 10153202, 10204795, 10249948, 10256388, 10301541,
     10308861, 10322181, 10329501, 10343261, 10350141, 10350581, 10447327,
     10453767, 10498920, 10519560, 10526880, 10547520, 10585353, 10637386,
     10644706, 10696299, 10731139, 10738019, 10745339, 10783172, 10834765,
     10914318, 10921638, 10942278, 10973231, 10980551, 11001191, 11008511,
     11032144, 11073864, 11125897, 11132777, 11170610, 11177930, 11198570,
     11229523, 11271243, 11309076, 11316396, 11337036, 11367989, 11375309,
     11395949, 11433782, 11468622, 11506455, 11565368, 11572688, 11593328,
     11624281, 11638481, 11652241, 11703834, 11711154, 11748987, 11770067,
     11776947, 11790707, 11821660, 11849620, 11901213, 11922293, 11967446,
     11988086, 12005279, 12019039, 12025919, 12033239, 12046999, 12063752,
     12084832, 12098592, 12119672, 12164385, 12171705, 12216418, 12237058,
     12244378, 12282211, 12289531, 12295971, 12317051, 12382844, 12413797,
     12434437, 12441757, 12493350, 12500670, 12538503, 12559143, 12566463,
     12597416, 12611176, 12631816, 12639136, 12698049, 12735882, 12763402,
     12770722, 12777602, 12794795, 12815435, 12829195, 12836515, 12843395,
     12895428, 12992174, 12999054, 13012814, 13020134, 13026574, 13033894,
     13040774, 13092807, 13130640, 13210193, 13217513, 13238153, 13275986,
     13290186, 13328019, 13386932, 13421332, 13421772, 13428652, 13487125,
     13487565, 13525398, 13546038, 13584311, 13604951, 13612271, 13663864,
     13684504, 13684944, 13691824, 13715457, 13722777, 13781690, 13809210,
     13816090, 13816530, 13823410, 13861243, 13881883, 13882323, 13889203,
     13912836, 13979069, 13999709, 14007029, 14079262, 14079702, 14086582,
     14110215, 14270201, 14276641, 14283961, 14307594, 14321794, 14335554,
     14349314, 14394467, 14467580, 14504973, 14532933, 14540253, 14546693,
     14591846, 14605606, 14612926, 14671399, 14678719, 14688592, 14695912,
     14702352, 14716552, 14730312, 14737632, 14744072, 14789225, 14802985,
     14810305, 14855018, 14875658, 14899731, 14927691, 14935011, 14941451,
     14965524, 14972844, 14986604, 15007684, 15066157, 15125070, 15132390,
     15183983, 15221816, 15228696, 15249776, 15288049, 15322449, 15329769,
     15367602, 15381362, 15478108, 15485428, 15519828, 15526708, 15527148,
     15578741, 15623894, 15717207, 15724527, 15762360, 15776120, 15872866,
     15893506, 15900826, 15921466, 15959299, 15973499, 16011332, 16070245,
     16105085, 16111965, 16119285, 16208711, 16267624, 16288264, 16295584,
     16316224, 16347177, 16354497, 16375137, 16382457, 16447810, 16465003,
     16479203, 16499843, 16506723, 16514043, 16551876, 16572516, 16579836,
     16603469, 16645189, 16749255, 16769895, 16777215}

\* byte(float64(Red)*0.2126 + float64(Green)*0.7152 + float64(Blue)*0.0722):
\* the float64 sum truncated towards zero
Gray(p) ==
    LET exact == (2126 * p.Red + 7152 * p.Green + 722 * p.Blue) \div 10000
    IN  IF (65536 * p.Red + 256 * p.Green + p.Blue) \in GrayBelow
        THEN exact - 1 ELSE exact

\* applyColor's pixel with the negative taken as the two's complement, 256 - c
\* in a byte, instead of 255 - c
ColorPixelNegated(p, color) ==
    IF color = blue THEN [p EXCEPT !.Green = 0, !.Red = 0]
    ELSE IF color = green THEN [p EXCEPT !.Blue = 0, !.Red = 0]
    ELSE IF color = red THEN [p EXCEPT !.Blue = 0, !.Green = 0]
    ELSE IF color = grayscale THEN
        [Blue |-> Gray(p), Green |-> Gray(p), Red |-> Gray(p)]
    ELSE IF color = negative THEN
        [Blue |-> (256 - p.Blue) % 256, Green |-> (256 - p.Green) % 256,
         Red |-> (256 - p.Red) % 256]
    ELSE p

\* one pixel of applyColor
ColorPixel(p, color) ==
    IF color = blue THEN [p EXCEPT !.Green = 0, !.Red = 0]
    ELSE IF color = green THEN [p EXCEPT !.Blue = 0, !.Red = 0]
    ELSE IF color = red THEN [p EXCEPT !.Blue = 0, !.Green = 0]
    ELSE IF color = grayscale THEN
        [Blue |-> Gray(p), Green |-> Gray(p), Red |-> Gray(p)]
    ELSE IF color = negative THEN
        [Blue |-> 255 - p.Blue, Green |-> 255 - p.Green, Red |-> 255 - p.Red]
    ELSE p

\* applyColor(image, color)
applyColor(img, color) ==
    [img EXCEPT !.Data = [y \in 1..Rows(img) |-> [x \in 1..Cols(img) |->
        ColorPixel(img.Data[y][x], color)]]]

RECURSIVE SumOver(_, _, _)
\* the sum of channel ch of the pixels of grid at the 0-based positions in cells
SumOver(grid, cells, ch) ==
    IF cells = {} THEN 0
    ELSE LET c == CHOOSE c \in cells : TRUE
         IN  grid[c[1] + 1][c[2] + 1][ch] + SumOver(grid, cells \ {c}, ch)

\* the average of the pixels of grid at cells, per channel, as avgColorBlock
\* and applyBlur compute it: integer division of the sums by the count
AvgPixel(grid, cells) ==
    LET cnt == Cardinality(cells)
    IN  [Blue |-> SumOver(grid, cells, "Blue") \div cnt,
         Green |-> SumOver(grid, cells, "Green") \div cnt,
         Red |-> SumOver(grid, cells, "Red") \div cnt]

\* the cells avgColorBlock and fillBlock visit for the block at (startX, startY)
BlockCells(img, startX, startY, blocksize) ==
    {c \in (0..(Rows(img) - 1)) \X (0..(Cols(img) - 1)) :
        /\ c[1] >= startY /\ c[1] < startY + blocksize
        /\ c[2] >= startX /\ c[2] < startX + blocksize}

\* avgColorBlock(image, startX, startY, blocksize)
avgColorBlock(img, startX, startY, blocksize) ==
    AvgPixel(img.Data, BlockCells(img, startX, startY, blocksize))

\* a pixelate that divides the sums of every block by blocksize*blocksize,
\* also for the blocks cut at the right and bottom edges
applyPixelateFullDivisor(img, blocksize) ==
    LET full(cells) ==
            [Blue |-> SumOver(img.Data, cells, "Blue") \div (blocksize * blocksize),
             Green |-> SumOver(img.Data, cells, "Green") \div (blocksize * blocksize),
             Red |-> SumOver(img.Data, cells, "Red") \div (blocksize * blocksize)]
    IN  [img EXCEPT !.Data = [y \in 1..Rows(img) |-> [x \in 1..Cols(img) |->
            full(BlockCells(img, ((x - 1) \div blocksize) * blocksize,
                                 ((y - 1) \div blocksize) * blocksize, blocksize))]]]

\* applyPixelate(image, blocksize): the blocks start at the multiples of
\* blocksize and do not overlap, so each is averaged over original pixels
applyPixelate(img, blocksize) ==
    [img EXCEPT !.Data = [y \in 1..Rows(img) |-> [x \in 1..Cols(img) |->
        avgColorBlock(img, ((x - 1) \div blocksize) * blocksize,
                           ((y - 1) \div blocksize) * blocksize, blocksize)]]]

\* a blur that divides every sum by the size of the whole window,
\* (2*blurRadius+1)^2, as if the image were padded with black pixels
applyBlurZeroPadded(img, blurRadius) ==
    LET width == img.InfoHeader.Width
        height == img.InfoHeader.Height
        k == 2 * blurRadius + 1
        window(y, x) ==
            {c \in (0..(height - 1)) \X (0..(width - 1)) :
                /\ c[1] >= y - blurRadius /\ c[1] <= y + blurRadius
                /\ c[2] >= x - blurRadius /\ c[2] <= x + blurRadius}
        padded(y, x) ==
            [Blue |-> SumOver(img.Data, window(y, x), "Blue") \div (k * k),
             Green |-> SumOver(img.Data, window(y, x), "Green") \div (k * k),
             Red |-> SumOver(img.Data, window(y, x), "Red") \div (k * k)]
    IN  IF height < 0 \/ width < 0 THEN Outcome("panic", img)
        ELSE Outcome("nil",
                [img EXCEPT !.Data = [y \in 1..height |-> [x \in 1..width |->
                    padded(y - 1, x - 1)]]])

\* applyBlur(image, blurRadius): width and height come from the header;
\* make([][]Pixel, height) panics on a negative height
applyBlur(img, blurRadius) ==
    LET width == img.InfoHeader.Width
        height == img.InfoHeader.Height
        window(y, x) ==
            {c \in (0..(height - 1)) \X (0..(width - 1)) :
                /\ c[1] >= y - blurRadius /\ c[1] <= y + blurRadius
                /\ c[2] >= x - blurRadius /\ c[2] <= x + blurRadius}
    IN  IF height < 0 \/ width < 0 THEN Outcome("panic", img)
        ELSE Outcome("nil",
                [img EXCEPT !.Data = [y \in 1..height |-> [x \in 1..width |->
                    AvgPixel(img.Data, window(y - 1, x - 1))]]])

\* the block size Filter passes to applyPixelate
PixelateBlockSize == 50
\* the radius Filter passes to applyBlur
BlurRadius == 20

\* Filter(image, filter)
Filter(img, filter) ==
    IF filter = "blue" THEN Outcome("nil", applyColor(img, blue))
    ELSE IF filter = "green" THEN Outcome("nil", applyColor(img, green))
    ELSE IF filter = "red" THEN Outcome("nil", applyColor(img, red))
    ELSE IF filter = "grayscale" THEN Outcome("nil", applyColor(img, grayscale))
    ELSE IF filter = "negative" THEN Outcome("nil", applyColor(img, negative))
    ELSE IF filter = "pixelate" THEN Outcome("nil", applyPixelate(img, PixelateBlockSize))
    ELSE IF filter = "blur" THEN applyBlur(img, BlurRadius)
    ELSE Outcome("nil", img)

\* ------------------------------------------------------------------ inputs

\* the byte at 0-based index i of an input file, after the 54 header bytes:
\* all bytes of a file differ (3 is odd, the files are shorter than 256 bytes)
Pat(i) == (3 * i + 7) % 256

\* the headers of a 24-bit uncompressed BMP of w x |hs| pixels, hs < 0 meaning
\* top-down, with its pixel data at off and a file of len bytes
MkHeaders(w, hs, off, len) ==
    [Header |->
        [Signature |-> <<66, 77>>, FileSize |-> len, Reserved |-> 0,
         DataOffset |-> off],
     InfoHeader |->
        [Size |-> 40, Width |-> w, Height |-> hs, Planes |-> 1,
         BitsPerPixel |-> 24, Compression |-> 0,
         ImageSize |-> RoundUp4(3 * w) * Abs(hs),
         XPixelsPerMeter |-> 2835, YPixelsPerMeter |-> 2835,
         ColorsUsed |-> 0, ColorsImportant |-> 0],
     Data |-> <<>>]

\* the file of len bytes with the given headers, cut short when len < 54
MkFile(hdrs, len) ==
    [i \in 1..len |-> IF i <= 54 THEN HeaderBytes(hdrs)[i] ELSE Pat(i - 1)]

\* where a file keeps its pixel data: DataOffset, the length of what precedes
\* the data, and how many bytes follow the data
Layouts ==
    {[off |-> 54, base |-> 54, tail |-> 0],     \* the common layout
     [off |-> 58, base |-> 58, tail |-> 0],     \* four bytes between headers and data
     [off |-> 54, base |-> 54, tail |-> 2],     \* two bytes after the data
     [off |-> 200, base |-> 54, tail |-> 0]}    \* DataOffset beyond the file

\* files whose headers pass every check of ParseBMP
GoodFiles ==
    {MkFile(MkHeaders(w, hs, l.off, l.base + RoundUp4(3 * w) * Abs(hs) + l.tail),
            l.base + RoundUp4(3 * w) * Abs(hs) + l.tail) :
        w \in 1..MaxWidth, hs \in ((-MaxHeight)..MaxHeight) \ {0}, l \in Layouts}

\* the ways a header is made to fail a check
Faults ==
    {"short", "sig", "hdrsize", "filesize", "width0", "widthneg", "height0",
     "planes", "bpp", "compression", "imagesize"}

\* a 2 x 2 bottom-up file with every fault of F applied at once
FaultyFile(F) ==
    LET len == IF "short" \in F THEN 53 ELSE 70
        good == MkHeaders(2, 2, 54, len)
        hdrs ==
            [Header |->
                [good.Header EXCEPT
                    !.Signature = IF "sig" \in F THEN <<66, 65>> ELSE @,
                    !.FileSize = IF "filesize" \in F THEN @ + 1 ELSE @],
             InfoHeader |->
                [good.InfoHeader EXCEPT
                    !.Size = IF "hdrsize" \in F THEN 39 ELSE @,
                    !.Width = IF "width0" \in F THEN 0
                              ELSE IF "widthneg" \in F THEN -2 ELSE @,
                    !.Height = IF "height0" \in F THEN 0 ELSE @,
                    !.Planes = IF "planes" \in F THEN 0 ELSE @,
                    !.BitsPerPixel = IF "bpp" \in F THEN 32 ELSE @,
                    !.Compression = IF "compression" \in F THEN 1 ELSE @,
                    !.ImageSize = IF "imagesize" \in F THEN @ + 4 ELSE @],
             Data |-> <<>>]
    IN  MkFile(hdrs, len)

FaultyFiles == {FaultyFile(F) : F \in SUBSET Faults}

\* files that declare more pixel data than a uint32 counts and an ImageSize of
\* 0: 4 x 2^30 pixels (12 * 2^30 bytes) and 2^28 x 16 pixels (3 * 2^28 * 16
\* bytes), each with one 12-byte row of data
HugeFiles ==
    {MkFile([hdrs EXCEPT !.InfoHeader.Width = d[1], !.InfoHeader.Height = d[2],
                         !.InfoHeader.ImageSize = 0], 66) :
        hdrs \in {MkHeaders(4, 1, 54, 66)},
        d \in {<<4, 1073741824>>, <<4, -1073741824>>, <<268435456, 16>>}}

\* the width of the one wide input image: beyond 20, so that a block size or a
\* radius of 20 and one of 50 give different results on it
WideWidth == 22

\* a well-formed bottom-up file of WideWidth x 1 pixels
WideFiles ==
    {MkFile(MkHeaders(WideWidth, 1, 54, 54 + RoundUp4(3 * WideWidth)),
            54 + RoundUp4(3 * WideWidth))}

\* ------------------------------------------------------------------ pipeline

\* crop requests: offsets -1..MaxCropOffset, sizes 0..MaxCropSize (0: omitted)
MaxCropOffset == 1
MaxCropSize == 2

CropRequests ==
    {CropInfo(ox, oy, cw, ch) :
        ox \in -1..MaxCropOffset, oy \in -1..MaxCropOffset,
        cw \in 0..MaxCropSize, ch \in 0..MaxCropSize}

MirrorDirections == {"horizontal", "vertical"}
RotateAngles == {-1, 1}
FilterTypes == {"blue", "green", "red", "grayscale", "negative", "pixelate", "blur"}

Init ==
    /\ b \in GoodFiles \cup FaultyFiles \cup HugeFiles \cup WideFiles
    /\ pc = "start"
    /\ err = "nil"
    /\ image = Nil
    /\ out = <<>>
    /\ steps = 0
    /\ par = Nil

\* image, err := ParseBMP(bytes)
Parse ==
    /\ pc = "start"
    /\ LET r == ParseBMP(b)
       IN  /\ image' = r.img
           /\ err' = r.err
           /\ pc' = IF r.err = "nil" THEN "parsed"
                    ELSE IF r.err = "panic" THEN "crashed" ELSE "failed"
    /\ UNCHANGED <<b, out, steps, par>>

\* one iteration of ApplyTransformations' loop with outcome o: an error ends
\* the loop, a panic ends the process
Applied(o) ==
    /\ image' = o.img
    /\ err' = o.err
    /\ pc' = IF o.err = "nil" THEN "parsed"
             ELSE IF o.err = "panic" THEN "crashed" ELSE "aborted"
    /\ steps' = steps + 1
    /\ UNCHANGED <<b, out, par>>

CanApply == pc = "parsed" /\ steps < MaxSteps

ApplyMirror(direction) ==
    /\ CanApply
    /\ Applied(Outcome("nil", MirrorImage(image, direction)))

ApplyFilter(filter) ==
    /\ CanApply
    /\ Applied(Filter(image, filter))

ApplyRotate(angle) ==
    /\ CanApply
    /\ Applied(Outcome("nil", Rotate(image, angle)))

ApplyCrop(opts) ==
    /\ CanApply
    /\ Applied(Crop(image, opts))

\* SaveBMP: data := SerializeBMP(image)
Save ==
    /\ pc = "parsed"
    /\ LET r == SerializeBMP(image)
       IN  /\ out' = r.data
           /\ err' = r.err
           /\ pc' = IF r.err = "nil" THEN "saved" ELSE "crashed"
    /\ UNCHANGED <<b, image, steps, par>>

Next ==
    \/ Parse
    \/ \E d \in MirrorDirections : ApplyMirror(d)
    \/ \E f \in FilterTypes : ApplyFilter(f)
    \/ \E a \in RotateAngles : ApplyRotate(a)
    \/ \E o \in CropRequests : ApplyCrop(o)
    \/ Save

Spec == Init /\ [][Next]_vars

\* ------------------------------------------------------------------ parallel blur

\* the images given to the parallel blur have 1..MaxBlurRows rows and
\* 1..MaxBlurCols columns, runtime.NumCPU() is 1..MaxCPU and the radius
\* 1..MaxParRadius
MaxBlurRows == 3
MaxBlurCols == 3
MaxCPU == 3
MaxParRadius == 1

\* clamp(v)
clamp(v) == IF v > 255 THEN 255 ELSE IF v < 0 THEN 0 ELSE v

\* byte(clamp(sum * weight)) with weight = 1.0 / float64(k): the float64
\* product of an integer sum below 2^11 and the float64 nearest to 1/k,
\* truncated, is the integer quotient for the odd k up to 9
Weighted(sum, k) == clamp(sum \div k)

\* chunkSize and numGoroutines after the test chunkSize < 1
chunkSize(h, numCPU) == IF h \div numCPU < 1 THEN 1 ELSE h \div numCPU
numGoroutines(h, numCPU) == IF h \div numCPU < 1 THEN h ELSE numCPU

\* a range that reaches one index into the range of the next goroutine
chunkRangeOverlapping(i, chunk, limit) ==
    [start |-> i * chunk, end |-> min((i + 1) * chunk + 1, limit)]

\* the arguments of goroutine i: (i*chunkSize, min((i+1)*chunkSize, limit))
chunkRange(i, chunk, limit) ==
    [start |-> i * chunk, end |-> min((i + 1) * chunk, limit)]

\* the 0-based cells a goroutine reads for row y of the horizontal pass:
\* (y, x+i) for every x and every i in -radius..radius with 0 <= x+i < w
RowReads(w, y, radius) ==
    {<<y, x + i>> : x \in 0..(w - 1), i \in (-radius)..radius}
        \cap ({y} \X (0..(w - 1)))

\* the 0-based cells a goroutine reads for column x of the vertical pass
ColumnReads(h, x, radius) ==
    {<<y + i, x>> : y \in 0..(h - 1), i \in (-radius)..radius}
        \cap ((0..(h - 1)) \X {x})

\* row y after the horizontal pass has handled it: tempRow is filled from the
\* row as it is, then the row is overwritten
blurRow(grid, y, radius) ==
    LET w == Len(grid[1])
        k == 2 * radius + 1
        near(x) == {c \in RowReads(w, y, radius) : Abs(c[2] - x) <= radius}
    IN  [x \in 1..w |->
            [Blue |-> Weighted(SumOver(grid, near(x - 1), "Blue"), k),
             Green |-> Weighted(SumOver(grid, near(x - 1), "Green"), k),
             Red |-> Weighted(SumOver(grid, near(x - 1), "Red"), k)]]

\* column x after the vertical pass has handled it, top to bottom
blurColumn(grid, x, radius) ==
    LET h == Len(grid)
        k == 2 * radius + 1
        near(y) == {c \in ColumnReads(h, x, radius) : Abs(c[1] - y) <= radius}
    IN  [y \in 1..h |->
            [Blue |-> Weighted(SumOver(grid, near(y - 1), "Blue"), k),
             Green |-> Weighted(SumOver(grid, near(y - 1), "Green"), k),
             Red |-> Weighted(SumOver(grid, near(y - 1), "Red"), k)]]

\* the grid of an input image of h rows and w columns, every byte different
ParGrid(h, w) ==
    [y \in 1..h |-> [x \in 1..w |->
        [Blue |-> Pat(3 * ((y - 1) * w + x - 1)),
         Green |-> Pat(3 * ((y - 1) * w + x - 1) + 1),
         Red |-> Pat(3 * ((y - 1) * w + x - 1) + 2)]]]

\* a goroutine started by the go statement of a pass, with what it has read
\* and written so far
NewWorker(pass, range) ==
    [pass |-> pass, start |-> range.start, end |-> range.end, at |-> range.start,
     done |-> FALSE, reads |-> {}, writes |-> {}]

\* applyBlur has been called: h, w, k, numGoroutines and chunkSize are set
BlurInit ==
    /\ b = <<>>
    /\ pc = "blur"
    /\ err = "nil"
    /\ out = <<>>
    /\ steps = 0
    /\ \E h \in 1..MaxBlurRows, w \in 1..MaxBlurCols, numCPU \in 1..MaxCPU,
          radius \in 1..MaxParRadius :
        /\ image = [MkHeaders(w, h, 54, 54 + RoundUp4(3 * w) * h) EXCEPT
                        !.Data = ParGrid(h, w)]
        /\ par = [blurRadius |-> radius,
                  numGoroutines |-> numGoroutines(h, numCPU),
                  chunkSize |-> chunkSize(h, numCPU),
                  main |-> "horizontal", i |-> 0, wg |-> 0, workers |-> <<>>]

\* wg.Add(1); go func(startY, endY int) {...}(i*chunkSize, min((i+1)*chunkSize, h))
GoHorizontal ==
    /\ pc = "blur"
    /\ par.main = "horizontal"
    /\ par.i < par.numGoroutines
    /\ par' = [par EXCEPT
                !.wg = @ + 1,
                !.i = @ + 1,
                !.workers = Append(@, NewWorker("horizontal",
                                chunkRange(par.i, par.chunkSize, Rows(image))))]
    /\ UNCHANGED <<b, pc, err, image, out, steps>>

\* one iteration of for y := startY; y < endY; y++ of a horizontal goroutine
HorizontalRow(g) ==
    /\ pc = "blur"
    /\ par.workers[g].pass = "horizontal"
    /\ par.workers[g].at < par.workers[g].end
    /\ LET y == par.workers[g].at
       IN  /\ image' = [image EXCEPT !.Data[y + 1] = blurRow(image.Data, y, par.blurRadius)]
           /\ par' = [par EXCEPT
                        !.workers[g].at = y + 1,
                        !.workers[g].reads = @ \cup RowReads(Cols(image), y, par.blurRadius),
                        !.workers[g].writes = @ \cup ({y} \X (0..(Cols(image) - 1)))]
    /\ UNCHANGED <<b, pc, err, out, steps>>

\* the loop of a goroutine is over: the deferred wg.Done()
WorkerDone(g) ==
    /\ pc = "blur"
    /\ ~par.workers[g].done
    /\ par.workers[g].at >= par.workers[g].end
    /\ par' = [par EXCEPT !.workers[g].done = TRUE, !.wg = @ - 1]
    /\ UNCHANGED <<b, pc, err, image, out, steps>>

\* wg.Wait() after the horizontal loop returns
WaitHorizontal ==
    /\ pc = "blur"
    /\ par.main = "horizontal"
    /\ par.i = par.numGoroutines
    /\ par.wg = 0
    /\ par' = [par EXCEPT !.main = "vertical", !.i = 0]
    /\ UNCHANGED <<b, pc, err, image, out, steps>>

\* wg.Add(1); go func(startX, endX int) {...}(i*chunkSize, min((i+1)*chunkSize, w))
GoVertical ==
    /\ pc = "blur"
    /\ par.main = "vertical"
    /\ par.i < par.numGoroutines
    /\ par' = [par EXCEPT
                !.wg = @ + 1,
                !.i = @ + 1,
                !.workers = Append(@, NewWorker("vertical",
                                chunkRange(par.i, par.chunkSize, Cols(image))))]
    /\ UNCHANGED <<b, pc, err, image, out, steps>>

\* one iteration of for x := startX; x < endX; x++ of a vertical goroutine
VerticalColumn(g) ==
    /\ pc = "blur"
    /\ par.workers[g].pass = "vertical"
    /\ par.workers[g].at < par.workers[g].end
    /\ LET x == par.workers[g].at
           col == blurColumn(image.Data, x, par.blurRadius)
       IN  /\ image' = [image EXCEPT !.Data =
                    [y \in 1..Rows(image) |-> [image.Data[y] EXCEPT ![x + 1] = col[y]]]]
           /\ par' = [par EXCEPT
                        !.workers[g].at = x + 1,
                        !.workers[g].reads = @ \cup ColumnReads(Rows(image), x, par.blurRadius),
                        !.workers[g].writes = @ \cup ((0..(Rows(image) - 1)) \X {x})]
    /\ UNCHANGED <<b, pc, err, out, steps>>

\* wg.Wait() after the vertical loop returns, and applyBlur returns
WaitVertical ==
    /\ pc = "blur"
    /\ par.main = "vertical"
    /\ par.i = par.numGoroutines
    /\ par.wg = 0
    /\ par' = [par EXCEPT !.main = "returned"]
    /\ UNCHANGED <<b, pc, err, image, out, steps>>

BlurNext ==
    \/ GoHorizontal
    \/ \E g \in DOMAIN par.workers : HorizontalRow(g)
    \/ \E g \in DOMAIN par.workers : WorkerDone(g)
    \/ WaitHorizontal
    \/ GoVertical
    \/ \E g \in DOMAIN par.workers : VerticalColumn(g)
    \/ WaitVertical

BlurSpec == BlurInit /\ [][BlurNext]_vars

\* ------------------------------------------------------------------ claims

\* paddedRowStride(w) = ceil(3*w / 4) * 4 of the specification
PaddedRowStride(w) == ((3 * w + 3) \div 4) * 4

\* ParseBMP has returned an image and no transform has been applied yet
JustParsed == pc = "parsed" /\ steps = 0

\* the input is a file of the common layout: headers that pass every check,
\* the pixel data right after the 54 header bytes, and nothing after the data
CommonLayout ==
    /\ ParseBMP(b).err = "nil"
    /\ Uint32LE(b, 10) = 54
    /\ Len(b) = 54 + Uint32LE(b, 34)

\* C1: round trip.  For every buffer ParseBMP accepts, parsing the
\* serialization of the parsed image succeeds and returns the same headers
\* and the same pixels.
C1_RoundTrip ==
    JustParsed =>
        LET s == SerializeBMP(image)
        IN  /\ s.err = "nil"
            /\ ParseBMP(s.data) = Result("nil", image)

\* C2: after decoding a valid BMP (here: one of the common layout) and any
\* sequence of successful transforms, SerializeBMP returns a file that
\* ParseBMP accepts, and the decoded image has the width, height and pixel
\* grid of the transformed image.
C2_SerializedIsValid ==
    (pc = "parsed" /\ CommonLayout) =>
        LET s == SerializeBMP(image)
            r == IF s.err = "nil" THEN ParseBMP(s.data) ELSE Result("panic", Nil)
        IN  /\ s.err = "nil"
            /\ r.err = "nil"
            /\ r.img.InfoHeader.Width = image.InfoHeader.Width
            /\ r.img.InfoHeader.Height = image.InfoHeader.Height
            /\ r.img.Data = image.Data

\* size = stride * rows in unbounded integers, for stride > 0, by division
SizeIs(size, stride, rows) == size % stride = 0 /\ size \div stride = rows

\* the first check of the specification's list that the bytes s fail, "none"
\* when they pass all eight
FirstFailedCheck(s) ==
    IF Len(s) < 54 THEN "ErrInvalidBMP"
    ELSE IF s[1] # 66 \/ s[2] # 77 THEN "ErrInvalidFileType"
    ELSE IF Uint32LE(s, 14) < 40 THEN "ErrInvalidHeaderSize"
    ELSE IF Uint32LE(s, 2) # Len(s) THEN "ErrCorruptFile"
    ELSE IF Int32LE(s, 18) <= 0 \/ Int32LE(s, 22) = 0 THEN "ErrNonPositiveDimensions"
    ELSE IF Uint16LE(s, 26) # 1 \/ Uint16LE(s, 28) # 24 THEN "ErrUnsupportedFormat"
    ELSE IF Uint32LE(s, 30) # 0 THEN "ErrUnsupportedCompression"
    ELSE IF ~SizeIs(Uint32LE(s, 34), PaddedRowStride(Int32LE(s, 18)), Abs(Int32LE(s, 22)))
        THEN "ErrInvalidImageData"
    ELSE "none"

\* C3: ParseBMP reports the error of the first failing check of the list
\* (length, signature, header size, file size, dimensions, planes and depth,
\* compression, image size) and returns no image with it.
C3_FirstFailingCheck ==
    (pc # "start" /\ FirstFailedCheck(b) # "none") =>
        /\ pc = "failed"
        /\ err = FirstFailedCheck(b)
        /\ image = Nil

\* the bytes s with the file-size field set to n
WithFileSize(s, n) ==
    [i \in 1..Len(s) |-> IF i \in 3..6 THEN PutUint32(n)[i - 2] ELSE s[i]]

\* C3 witness: a file whose only defect is a file-size field one above the
\* buffer length has been rejected with ErrCorruptFile
C3_Witness ==
    /\ pc = "failed"
    /\ err = "ErrCorruptFile"
    /\ image = Nil
    /\ Uint32LE(b, 2) = Len(b) + 1
    /\ FirstFailedCheck(WithFileSize(b, Len(b))) = "none"

\* C4: padding on decode.  For every accepted file (of the common layout) and
\* every disk row r, some in-memory row, r itself or its mirror h-1-r, holds
\* at every column x the pixel of the three bytes at
\* DataOffset + r*paddedRowStride(width) + 3*x.
C4_DecodeHonoursPadding ==
    (JustParsed /\ CommonLayout) =>
        LET w == image.InfoHeader.Width
            h == Abs(image.InfoHeader.Height)
            off == image.Header.DataOffset
        IN  \A r \in 0..(h - 1) : \E y \in {r, h - 1 - r} : \A x \in 0..(w - 1) :
                image.Data[y + 1][x + 1] = PixelAt(b, off + r * PaddedRowStride(w) + 3 * x)

\* C5: orientation on decode, on the accepted files whose rows need no padding
\* (3*width a multiple of 4): with a positive stored height in-memory row y is
\* disk row h-1-y, with a negative one it is disk row y.
C5_DecodeOrientation ==
    (JustParsed /\ CommonLayout /\ (3 * image.InfoHeader.Width) % 4 = 0) =>
        LET w == image.InfoHeader.Width
            h == Abs(image.InfoHeader.Height)
            off == image.Header.DataOffset
            diskRow(y) == IF image.InfoHeader.Height > 0 THEN h - 1 - y ELSE y
        IN  \A y \in 0..(h - 1), x \in 0..(w - 1) :
                image.Data[y + 1][x + 1] = PixelAt(b, off + diskRow(y) * 3 * w + 3 * x)

\* C6: SerializeBMP writes pixel (y, x) at DataOffset + y*stride + 3*x in
\* blue, green, red order, stride = ceil(3*width/4)*4, and zeroes the
\* stride - 3*width bytes that end each row.
C6_EncodePadsRows ==
    pc = "saved" =>
        LET w == image.InfoHeader.Width
            h == Abs(image.InfoHeader.Height)
            off == image.Header.DataOffset
            stride == PaddedRowStride(w)
        IN  \A y \in 0..(h - 1) :
                /\ \A x \in 0..(w - 1) :
                        PixelAt(out, off + y * stride + 3 * x) = image.Data[y + 1][x + 1]
                /\ \A k \in (3 * w)..(stride - 1) : At(out, off + y * stride + k) = 0

\* C7: padding invariant.  ImageSize = ceil(Width*3/4)*4 * abs(Height) for the
\* image ParseBMP returns and after every transform.
C7_PaddingInvariant ==
    image # Nil =>
        image.InfoHeader.ImageSize =
            PaddedRowStride(image.InfoHeader.Width) * Abs(image.InfoHeader.Height)

\* C8: file-size invariant.  The file-size field SerializeBMP writes at bytes
\* 2..5 equals the length of the buffer it returns.
C8_FileSizeInvariant ==
    pc = "saved" => Uint32LE(out, 2) = Len(out)

\* C9: grid shape.  In every state reached from a decoded image by
\* transforms, Data has abs(Height) rows of Width pixels each.
C9_GridShape ==
    image # Nil =>
        /\ Len(image.Data) = Abs(image.InfoHeader.Height)
        /\ \A y \in 1..Len(image.Data) : Len(image.Data[y]) = image.InfoHeader.Width

\* C9 witness: two transforms have changed the shape of a decoded image
C9_Witness ==
    /\ pc = "parsed"
    /\ steps = 2
    /\ image.InfoHeader.Width # Int32LE(b, 18)
    /\ Abs(image.InfoHeader.Height) # Abs(Int32LE(b, 22))
    /\ Len(image.Data) = Abs(image.InfoHeader.Height)
    /\ Len(image.Data[1]) = image.InfoHeader.Width

\* C10: decoding is all-or-nothing.  ParseBMP ends with an error and no image
\* or with a fully built image, and when the header checks pass, the last
\* byte it reads as pixel data lies below len(bytes).
C10_DecodeAllOrNothing ==
    (pc # "start" /\ steps = 0 /\ out = <<>>) =>
        LET r == ParseBMP(b)
            hdrs == ReadHeaders(b)
            h == Abs(hdrs.InfoHeader.Height)
            w == hdrs.InfoHeader.Width
        IN  /\ \/ r.err = "nil" /\ r.img # Nil
               \/ r.err \notin {"nil", "panic"} /\ r.img = Nil
            /\ (Len(b) >= 54 /\ validateHeaders(hdrs, Len(b)) = "nil") =>
                    /\ h <= Len(b)
                    /\ w <= Len(b)
                    /\ hdrs.Header.DataOffset + 3 * w * h <= Len(b)

\* the errors Crop returns
CropErrors ==
    {"offset values exceed image dimensions", "crop area exceeds image boundaries"}

\* C11: ApplyTransformations applies one request after the other to the same
\* image and stops at the first that fails.  Every request handled leaves
\* either no error and the loop running, or the error of a Crop, the image as
\* it was before that Crop, and the loop ended; nothing is applied after an
\* error.
C11_InOrderStopAtFailure ==
    [][/\ pc # "aborted"
       /\ steps' # steps =>
            /\ pc = "parsed"
            /\ steps' = steps + 1
            /\ \/ pc' = "parsed" /\ err' = "nil"
               \/ /\ pc' = "aborted"
                  /\ err' \in CropErrors
                  /\ image' = image
                  /\ \E o \in CropRequests : Crop(image, o).err = err'
      ]_vars

\* C12: Crop returns an error for every request with a negative offset, an
\* offsetX >= width or an offsetY >= abs(height).
C12_CropRejectsBadOffsets ==
    pc = "parsed" =>
        \A o \in CropRequests :
            (\/ o.OffsetX < 0
             \/ o.OffsetY < 0
             \/ o.OffsetX >= image.InfoHeader.Width
             \/ o.OffsetY >= Abs(image.InfoHeader.Height))
                => Crop(image, o).err \in CropErrors

\* an image of 10 x 10 pixels
TenByTen ==
    [MkHeaders(10, 10, 54, 54 + 320) EXCEPT
        !.Data = [y \in 1..10 |-> [x \in 1..10 |->
                    [Blue |-> y, Green |-> x, Red |-> 10 * y + x]]]]

\* C13: with offsets inside the image, Crop returns an error whenever
\* offsetX + width > current width or offsetY + height > abs(current height),
\* and leaves the image alone; a 10 x 10 image with offsetX = 8 and width = 4
\* fails.
C13_CropRejectsOversize ==
    /\ pc = "parsed" =>
        \A o \in CropRequests :
            (/\ o.OffsetX >= 0 /\ o.OffsetX < image.InfoHeader.Width
             /\ o.OffsetY >= 0 /\ o.OffsetY < Abs(image.InfoHeader.Height)
             /\ \/ o.OffsetX + o.Width > image.InfoHeader.Width
                \/ o.OffsetY + o.Height > Abs(image.InfoHeader.Height))
                => Crop(image, o) = Outcome("crop area exceeds image boundaries", image)
    /\ Crop(TenByTen, CropInfo(8, 0, 4, 0))
            = Outcome("crop area exceeds image boundaries", TenByTen)

\* C13 witness: after one successful transform, a Crop whose offsets lie in the
\* image and whose area does not has ended the pipeline with its error
C13_Witness ==
    /\ pc = "aborted"
    /\ steps = 2
    /\ err = "crop area exceeds image boundaries"
    /\ image # ParseBMP(b).img
    /\ \E o \in CropRequests :
        /\ o.OffsetX >= 0 /\ o.OffsetX < image.InfoHeader.Width
        /\ o.OffsetY >= 0 /\ o.OffsetY < Abs(image.InfoHeader.Height)
        /\ o.OffsetX + o.Width > image.InfoHeader.Width
        /\ Crop(image, o).err = err

\* C14: Crop with offsets 0, the current width and the current abs(height)
\* succeeds and changes neither the grid nor a header field, whatever the sign
\* of the stored height; stated for the images decoded from files of the
\* common layout, whose size fields Crop recomputes to the same values.
C14_FullCropIsNoOp ==
    (JustParsed /\ CommonLayout) =>
        Crop(image, CropInfo(0, 0, image.InfoHeader.Width, Abs(image.InfoHeader.Height)))
            = Outcome("nil", image)

\* C15: a Crop that succeeds leaves height rows of width pixels with
\* new[i][j] = old[offsetY+i][offsetX+j], a width or height of 0 standing for
\* the rest of the image from the offset; Width is the new width, Height the
\* new height with the old sign, ImageSize the padded stride times the new
\* height and FileSize DataOffset plus that.
C15_CropSelectsRectangle ==
    pc = "parsed" =>
        \A o \in CropRequests :
            LET r == Crop(image, o)
                cw == IF o.Width = 0 THEN image.InfoHeader.Width - o.OffsetX ELSE o.Width
                ch == IF o.Height = 0 THEN Abs(image.InfoHeader.Height) - o.OffsetY
                      ELSE o.Height
            IN  r.err = "nil" =>
                    /\ Len(r.img.Data) = ch
                    /\ \A i \in 1..ch :
                        /\ Len(r.img.Data[i]) = cw
                        /\ \A j \in 1..cw :
                            r.img.Data[i][j] = image.Data[o.OffsetY + i][o.OffsetX + j]
                    /\ r.img.InfoHeader.Width = cw
                    /\ r.img.InfoHeader.Height =
                            (IF image.InfoHeader.Height < 0 THEN -ch ELSE ch)
                    /\ r.img.InfoHeader.ImageSize = PaddedRowStride(cw) * ch
                    /\ r.img.Header.FileSize =
                            r.img.Header.DataOffset + PaddedRowStride(cw) * ch

\* the two images have the same Width and Height fields and the same grid
SameShapeAndGrid(x, y) ==
    /\ x.InfoHeader.Width = y.InfoHeader.Width
    /\ x.InfoHeader.Height = y.InfoHeader.Height
    /\ x.Data = y.Data

\* C16: Rotate left applied after Rotate right restores the Width and Height
\* fields and every pixel, also when the stored height is negative.
C16_RotateInverse ==
    pc = "parsed" => SameShapeAndGrid(Rotate(Rotate(image, 1), -1), image)

\* C17: with grid row 0 the topmost row, Rotate right is the clockwise quarter
\* turn, out[i][j] = in[h-1-j][i], which takes the top-left pixel to the
\* top-right corner, and Rotate left the counter-clockwise one,
\* out[i][j] = in[j][w-1-i], which takes it to the bottom-left corner; both
\* give a grid of w rows and h columns, Width h and abs(Height) w.
C17_RotateQuarterTurns ==
    pc = "parsed" =>
        LET h == Rows(image)
            w == Cols(image)
            right == Rotate(image, 1)
            left == Rotate(image, -1)
        IN  /\ \A r \in {right, left} :
                /\ Rows(r) = w /\ Cols(r) = h
                /\ r.InfoHeader.Width = h /\ Abs(r.InfoHeader.Height) = w
            /\ right.Data[1][h] = image.Data[1][1]
            /\ left.Data[w][1] = image.Data[1][1]
            /\ \A i \in 1..w, j \in 1..h :
                /\ right.Data[i][j] = image.Data[h - j + 1][i]
                /\ left.Data[i][j] = image.Data[j][w - i + 1]

\* C18: MirrorImage horizontal followed by MirrorImage vertical gives the same
\* Width, Height and grid as Rotate right applied twice and as Rotate left
\* applied twice.
C18_HalfTurn ==
    pc = "parsed" =>
        LET m == MirrorImage(MirrorImage(image, "horizontal"), "vertical")
        IN  /\ SameShapeAndGrid(m, Rotate(Rotate(image, 1), 1))
            /\ SameShapeAndGrid(m, Rotate(Rotate(image, -1), -1))

\* C19: MirrorImage horizontal leaves new[y][x] = old[y][w-1-x], MirrorImage
\* vertical new[y][x] = old[h-1-y][x], and both leave every header field,
\* the sign of Height included, as it was.
C19_MirrorReflects ==
    pc = "parsed" =>
        LET h == Rows(image)
            w == Cols(image)
            mh == MirrorImage(image, "horizontal")
            mv == MirrorImage(image, "vertical")
        IN  /\ \A m \in {mh, mv} :
                /\ m.Header = image.Header
                /\ m.InfoHeader = image.InfoHeader
                /\ Len(m.Data) = h
                /\ \A y \in 1..h : Len(m.Data[y]) = w
            /\ \A y \in 1..h, x \in 1..w :
                /\ mh.Data[y][x] = image.Data[y][w - x + 1]
                /\ mv.Data[y][x] = image.Data[h - y + 1][x]

\* C19 witness: a decoded image of 4 x 2 pixels has been mirrored
\* horizontally, which reversed every row and changed the grid
C19_Witness ==
    /\ pc = "parsed"
    /\ steps = 1
    /\ image.InfoHeader.Width = 4
    /\ Abs(image.InfoHeader.Height) = 2
    /\ image = MirrorImage(ParseBMP(b).img, "horizontal")
    /\ image.Data # ParseBMP(b).img.Data
    /\ \A y \in 1..2, x \in 1..4 : image.Data[y][x] = ParseBMP(b).img.Data[y][5 - x]

\* C20: MirrorImage applied twice in the same direction restores the image,
\* for even and odd widths and heights.
C20_MirrorInvolution ==
    pc = "parsed" =>
        \A d \in MirrorDirections : MirrorImage(MirrorImage(image, d), d) = image

\* C20 witness: a decoded image of odd width 3 is back to what ParseBMP
\* returned after two mirrors, one horizontal mirror changing it
C20_Witness ==
    /\ pc = "parsed"
    /\ steps = 2
    /\ image.InfoHeader.Width = 3
    /\ image = ParseBMP(b).img
    /\ MirrorImage(image, "horizontal") # image
    /\ MirrorImage(MirrorImage(image, "horizontal"), "horizontal") = image

\* the grid of the image with every pixel replaced by f of it
MapPixels(f(_), img) ==
    [y \in 1..Rows(img) |-> [x \in 1..Cols(img) |-> f(img.Data[y][x])]]

\* round(0.2126*R + 0.7152*G + 0.0722*B): the luma to the nearest integer
RoundedLuma(p) == (2126 * p.Red + 7152 * p.Green + 722 * p.Blue + 5000) \div 10000

\* C21: the grayscale filter sets the three channels of every pixel to the
\* luma of the pixel rounded to the nearest integer.
C21_GrayscaleRounds ==
    pc = "parsed" =>
        LET gray(p) == [Blue |-> RoundedLuma(p), Green |-> RoundedLuma(p),
                        Red |-> RoundedLuma(p)]
        IN  Filter(image, "grayscale") =
                Outcome("nil", [image EXCEPT !.Data = MapPixels(gray, image)])

\* blur radii 0..MaxBlurRadius are tried besides the one Filter passes
MaxBlurRadius == 2

MaxBlockSize == 3

\* every pixel of the image has the same colour
Uniform(img) ==
    \A y \in 1..Rows(img), x \in 1..Cols(img) : img.Data[y][x] = img.Data[1][1]

\* C23: applyPixelate replaces every pixel by the truncated per-channel
\* average of the original pixels of its tile, the tiles being the blockSize x
\* blockSize squares anchored at (0,0) and cut at the image bounds; an image
\* of one colour is left unchanged.
C23_PixelateTiles ==
    pc = "parsed" =>
        \A bs \in (1..MaxBlockSize) \cup {PixelateBlockSize} :
            LET h == Rows(image)
                w == Cols(image)
                tile(y, x) ==
                    {c \in (0..(h - 1)) \X (0..(w - 1)) :
                        c[1] \div bs = y \div bs /\ c[2] \div bs = x \div bs}
                r == applyPixelate(image, bs)
            IN  /\ r = [image EXCEPT !.Data =
                        [y \in 1..h |-> [x \in 1..w |->
                            AvgPixel(image.Data, tile(y - 1, x - 1))]]]
                /\ Uniform(image) => r = image

\* C23 witness: the pixelate filter has made a decoded 4 x 2 image of several
\* colours uniform, and a second pixelate filter has left it as it was
C23_Witness ==
    /\ pc = "parsed"
    /\ steps = 2
    /\ image.InfoHeader.Width = 4
    /\ Abs(image.InfoHeader.Height) = 2
    /\ ~Uniform(ParseBMP(b).img)
    /\ image = applyPixelate(ParseBMP(b).img, PixelateBlockSize)
    /\ Uniform(image)
    /\ applyPixelate(image, PixelateBlockSize) = image

\* C24: the grayscale filter applied twice leaves the same grid as applied
\* once.
C24_GrayscaleIdempotent ==
    pc = "parsed" =>
        Filter(Filter(image, "grayscale").img, "grayscale").img.Data
            = Filter(image, "grayscale").img.Data

\* C25: the negative filter sets every channel c of every pixel to 255 - c and
\* leaves the headers alone; applied twice it restores the image.
C25_NegativeInvolution ==
    pc = "parsed" =>
        LET inv(p) == [Blue |-> 255 - p.Blue, Green |-> 255 - p.Green,
                       Red |-> 255 - p.Red]
            once == Filter(image, "negative")
        IN  /\ once = Outcome("nil", [image EXCEPT !.Data = MapPixels(inv, image)])
            /\ Filter(once.img, "negative") = Outcome("nil", image)

\* C25 witness: after two negative filters the image is the one ParseBMP
\* returned, and one negative filter changes each channel of its first pixel
C25_Witness ==
    /\ pc = "parsed"
    /\ steps = 2
    /\ image = ParseBMP(b).img
    /\ LET once == Filter(image, "negative").img
       IN  /\ once.Data[1][1].Blue = 255 - image.Data[1][1].Blue
           /\ once.Data[1][1].Blue # image.Data[1][1].Blue
           /\ Filter(once, "negative").img = image

\* the block size and the radius the documentation of Filter gives
DocumentedBlockSize == 20
DocumentedBlurRadius == 50

\* C26: Filter(image, "pixelate") pixelates with a block size of 20 and
\* Filter(image, "blur") blurs with a radius of 50.
C26_FilterDefaults ==
    pc = "parsed" =>
        /\ Filter(image, "pixelate")
                = Outcome("nil", applyPixelate(image, DocumentedBlockSize))
        /\ Filter(image, "blur") = applyBlur(image, DocumentedBlurRadius)

\* the horizontal pass over all rows followed by the vertical pass over all
\* columns, by one worker
SequentialBlur(grid, radius) ==
    LET h == Len(grid)
        w == Len(grid[1])
        rows == [y \in 1..h |-> blurRow(grid, y - 1, radius)]
    IN  [y \in 1..h |-> [x \in 1..w |-> blurColumn(rows, x - 1, radius)[y]]]

\* C27: when the parallel applyBlur returns, the grid is that of the
\* horizontal pass over every row followed by the vertical pass over every
\* column, whatever the number of rows, columns and CPUs.
C27_ParallelEqualsSequential ==
    (pc = "blur" /\ par.main = "returned") =>
        image.Data = SequentialBlur(ParGrid(Rows(image), Cols(image)), par.blurRadius)

\* C28: no data race.  Two goroutines of the same pass have disjoint index
\* ranges and neither writes a cell the other reads or writes; a vertical
\* goroutine exists only when every horizontal one has finished; applyBlur
\* has returned only when every goroutine has finished.
C28_RaceFree ==
    pc = "blur" =>
        /\ \A g, k \in DOMAIN par.workers :
            (g # k /\ par.workers[g].pass = par.workers[k].pass) =>
                /\ (par.workers[g].start..(par.workers[g].end - 1))
                        \cap (par.workers[k].start..(par.workers[k].end - 1)) = {}
                /\ par.workers[g].writes
                        \cap (par.workers[k].reads \cup par.workers[k].writes) = {}
        /\ \A g, k \in DOMAIN par.workers :
            (par.workers[g].pass = "vertical" /\ par.workers[k].pass = "horizontal")
                => par.workers[k].done
        /\ par.main = "returned" => \A g \in DOMAIN par.workers : par.workers[g].done

\* C28 witness: applyBlur has returned after three horizontal and three
\* vertical goroutines have each written cells of a 3 x 3 image
C28_Witness ==
    /\ pc = "blur"
    /\ par.main = "returned"
    /\ Len(par.workers) = 6
    /\ \A g \in 1..6 : par.workers[g].done /\ par.workers[g].writes # {}
    /\ \A g \in 1..3 : par.workers[g].pass = "horizontal"
    /\ \A g \in 4..6 : par.workers[g].pass = "vertical"

\* C29: every header validateHeaders accepts declares the ImageSize
\* ceil(3*Width/4)*4 * abs(Height) of unbounded integer arithmetic.
C29_SizeValidationExact ==
    (pc # "start" /\ Len(b) >= 54 /\ validateHeaders(ReadHeaders(b), Len(b)) = "nil") =>
        SizeIs(Uint32LE(b, 34), PaddedRowStride(Int32LE(b, 18)), Abs(Int32LE(b, 22)))

\* C30: applied to a decoded image whose stored height is negative, the blur
\* filter completes and leaves abs(height) rows of width pixels and the
\* headers as they were.
C30_BlurBothOrientations ==
    (pc = "parsed" /\ image.InfoHeader.Height < 0) =>
        LET r == Filter(image, "blur")
        IN  /\ r.err = "nil"
            /\ Len(r.img.Data) = Abs(image.InfoHeader.Height)
            /\ \A y \in 1..Len(r.img.Data) : Len(r.img.Data[y]) = image.InfoHeader.Width
            /\ r.img.Header = image.Header
            /\ r.img.InfoHeader = image.InfoHeader

====
